---- MODULE Spec2Model ----
(***************************************************************************)
(* State-machine model of the OSIRIS / HI-DRIVE inventory dashboard:       *)
(* src/firebase_utils.py (FirebaseManager and the firestore_retry          *)
(* decorator) driven by the Streamlit page handlers of src/app.py.         *)
(*                                                                         *)
(* The remote Firestore store is shared by several browser sessions; each  *)
(* session runs one page handler at a time, and the store calls of         *)
(* different sessions interleave.                                          *)
(***************************************************************************)
EXTENDS Integers, Sequences, FiniteSets, TLC

(* ------------------------------ bounds -------------------------------- *)

\* history entries kept per item before the forms stop being submitted
MaxHist == 2

Sessions == {"s1", "s2"}
ItemIds == {"A", "B"}
OrderIds == {"o1", "o2"}
\* exceptions a Firestore call can raise: a transient one (the service is
\* unavailable) and one that no retry can cure (the request itself is invalid)
ExcKinds == {"ServiceUnavailable", "InvalidArgument"}
\* what a user can type into a text_input for the name / the SKU
NameInputs == {"", "a"}
IdInputs == ItemIds \cup {""}
\* what a user can try to put into a quantity number_input
QtyInputs == {-1, 0, 1}
\* what a user can put into the "Umbral de Alerta" number_input
AlertInputs == {0, 1}

(* ------------------------- program constants --------------------------- *)

\* a loop that runs one attempt too many
max_retries_off_by_one == 3 + 1

\* firestore_retry.wrapper: max_retries = 3
max_retries == 3
\* firestore_retry.wrapper: delay = 1
initial_delay == 1

\* Python None / an empty dict: both are falsy, which is all the code tests
None == [f \in {} |-> 0]

VARIABLES
    inventory,          \* collection 'inventory': doc id -> document fields
    history,            \* sub-collection 'history' of each inventory document
    orders,             \* collection 'orders': doc id -> order record
    page,               \* st.session_state.page, per session
    usb_scan_result,    \* st.session_state.usb_scan_result, per session
    editing_item_id,    \* st.session_state.editing_item_id, per session
    processing_orders,  \* the list fetched by get_orders('processing'), per session
    pc,                 \* where each session's running handler stands
    form,               \* the running handler and its locals, per session
    frame,              \* the firestore_retry wrapper frame, per session
    result,             \* what the last handler showed to the user, per session
    services,           \* the secrets and what initialize_services made of them
    manager             \* the FirebaseManager() call each thread is in, per session

vars == <<inventory, history, orders, page, usb_scan_result, editing_item_id,
          processing_orders, pc, form, frame, result, services, manager>>

store == <<inventory, history, orders>>
session_state == <<page, usb_scan_result, editing_item_id, processing_orders>>

(* ------------------------------ helpers -------------------------------- *)

RECURSIVE SumChanges(_)
\* sum of quantity_change over a history
SumChanges(h) ==
    IF h = <<>> THEN 0 ELSE h[1].quantity_change + SumChanges(Tail(h))

\* dict.get(key, default)
Get(d, key, default) == IF key \in DOMAIN d THEN d[key] ELSE default

\* doc_ref.set(data) without merge: the document becomes data
SetOverwrite(old, data) == data

\* doc_ref.set(data, merge=True): the fields of data overwrite, the others stay
SetMerge(old, data) ==
    [f \in (DOMAIN old) \cup (DOMAIN data) |->
        IF f \in DOMAIN data THEN data[f] ELSE old[f]]

\* doc.to_dict() of a stored document, or None for a document that does not exist
Doc(id) == IF id \in DOMAIN inventory THEN inventory[id] ELSE None

\* a number_input built without its min_value
number_input_no_min(v, min_value) == TRUE

\* st.number_input(..., min_value=m): the widget holds v only when v >= m
number_input(v, min_value) == v >= min_value

(* --------------------- firestore_retry (the wrapper) ------------------- *)

\* wrapper(*args): max_retries, delay and the for loop at attempt 0, func invoked
NewFrame(func) ==
    [func |-> func, status |-> "running", attempt |-> 0, delay |-> initial_delay,
     slept |-> 0, calls |-> 1, warnings |-> 0, exc |-> "none", raised |-> "none",
     value |-> None]

NoFrame == [NewFrame("none") EXCEPT !.status = "none", !.calls = 0]

\* the first store call of a wrapped method's body
FirstStep(func) == IF func = "get_inventory_item_details" THEN "details" ELSE "set"

\* A bare `raise`: re-raises the exception being handled; with none being
\* handled Python raises RuntimeError("No active exception to reraise").
BareRaise(handled) == IF handled = "none" THEN "RuntimeError" ELSE handled

\* The exception being handled when line 31 runs.  The except block of line 25
\* has been left, which clears its exception; the page handlers of app.py call
\* the wrapped methods outside any except block, so nothing is being handled.
HandledAtLine31(f) == "none"

\* a wrapper that sleeps the same delay after every failure
AfterFailure_constant_delay(f, e) ==
    [f EXCEPT !.attempt = @ + 1, !.warnings = @ + 1, !.slept = @ + f.delay, !.exc = e]

\* a wrapper that does not sleep once the last attempt has failed
AfterFailure_no_last_sleep(f, e) ==
    [f EXCEPT !.attempt = @ + 1, !.warnings = @ + 1,
              !.slept = IF f.attempt + 1 < max_retries THEN @ + f.delay ELSE @,
              !.delay = @ * 2, !.exc = e]

\* except Exception as e: logger.warning, time.sleep(delay), delay *= 2, next attempt
AfterFailure(f, e) ==
    [f EXCEPT !.attempt = @ + 1, !.warnings = @ + 1, !.slept = @ + f.delay,
              !.delay = @ * 2, !.exc = e]

\* the for loop is exhausted: logger.error and the bare raise of line 31
Exhausted(f) ==
    [f EXCEPT !.status = "raised", !.raised = BareRaise(HandledAtLine31(f))]

\* return func(*args, **kwargs)
Returned(f, v) == [f EXCEPT !.status = "returned", !.value = v]

(* ------------------------- FirebaseManager ----------------------------- *)

\* get_inventory_item_details: doc.to_dict() with item['id'] = doc.id, or None
get_inventory_item_details(doc_id) ==
    IF doc_id \in DOMAIN inventory
    THEN SetMerge(inventory[doc_id], [id |-> doc_id])
    ELSE None

\* save_inventory_item, first store call: doc_ref.set(data, merge=True)
save_set(data, custom_id) ==
    (custom_id :> SetMerge(Doc(custom_id), data)) @@ inventory

\* save_inventory_item: the history entry built at lines 81-86 (its timestamp
\* and its details text, which no operation reads back, are left out)
history_data(data, is_new, details) ==
    [type |-> IF is_new THEN "Stock Inicial" ELSE "Ajuste Manual",
     quantity_change |-> Get(data, "quantity", None)]

\* a save that writes the document and forgets its history entry
save_add_nothing(data, custom_id, is_new, details) == history

\* save_inventory_item, second store call: doc_ref.collection('history').add(...)
save_add(data, custom_id, is_new, details) ==
    [history EXCEPT ![custom_id] = Append(@, history_data(data, is_new, details))]

\* get_orders(status): the ids of the orders whose status field equals status
get_orders(status) == {o \in OrderIds : orders[o].status = status}

\* the names found in stored documents, by their code points
CodePoints == [n \in {"", "a", "Ab", "B"} |->
                 IF n = "" THEN <<>>
                 ELSE IF n = "a" THEN <<97>>
                 ELSE IF n = "Ab" THEN <<65, 98>>
                 ELSE <<66>>]

\* the names a stored document can hold
StoredNames == DOMAIN CodePoints

\* str.lower() on code points: A..Z move to a..z, the others stay
lower(cps) == [k \in DOMAIN cps |-> IF cps[k] \in 65..90 THEN cps[k] + 32 ELSE cps[k]]

\* u < v for strings: the first differing code point decides, a proper
\* prefix is smaller
StrLess(u, v) ==
    \E k \in 1..(Len(u) + 1) :
        /\ \A j \in 1..(k - 1) : j <= Len(v) /\ u[j] = v[j]
        /\ k <= Len(v)
        /\ k > Len(u) \/ u[k] < v[k]

\* a sort key that keeps the case of the name
sort_key_case_sensitive(x) == CodePoints[Get(x, "name", "")]

\* the key of line 102: x.get('name', '').lower()
sort_key(x) == lower(CodePoints[Get(x, "name", "")])

\* the order in which stream() yields the documents of a collection
DocumentOrder == <<"A", "B">>

\* collection('inventory').stream() with dict(item.to_dict(), id=item.id)
\* applied to each document (line 101)
StreamItems ==
    LET ids == SelectSeq(DocumentOrder, LAMBDA i : i \in DOMAIN inventory)
    IN  [k \in DOMAIN ids |-> SetMerge(inventory[ids[k]], [id |-> ids[k]])]

RECURSIVE sorted(_)
\* sorted(items, key=...): a stable sort, each element placed behind the
\* elements whose key is not greater than its own
sorted(items) ==
    IF items = <<>> THEN <<>>
    ELSE LET x == items[Len(items)]
             q == sorted(SubSeq(items, 1, Len(items) - 1))
             n == Cardinality({k \in DOMAIN q : ~StrLess(sort_key(x), sort_key(q[k]))})
         IN  SubSeq(q, 1, n) \o <<x>> \o SubSeq(q, n + 1, Len(q))

\* get_all_inventory_items()
get_all_inventory_items == sorted(StreamItems)

\* the names bound at module level of firebase_utils.py
ModuleGlobals ==
    {"firebase_admin", "credentials", "firestore", "json", "base64", "logging",
     "datetime", "timezone", "st", "time", "logger", "firestore_retry",
     "FirebaseManager"}

\* evaluating a global name inside a method body
LoadGlobal(name) == IF name \in ModuleGlobals THEN "ok" ELSE "NameError"

\* the attributes of a FirebaseManager instance
FirebaseManagerAttrs ==
    {"_app_initialized", "db", "__init__", "_initialize_firebase",
     "save_inventory_item", "get_inventory_item_details",
     "get_all_inventory_items", "get_orders", "get_all_suppliers",
     "complete_order"}

\* evaluating firebase.<name>
GetAttr(name) == IF name \in FirebaseManagerAttrs THEN "ok" ELSE "AttributeError"

RECURSIVE ApplyLines(_, _, _)
\* the lines written one after the other, stopping at the first short one
ApplyLines(lines, inv, hist) ==
    IF lines = <<>> THEN [ok |-> TRUE, inventory |-> inv, history |-> hist]
    ELSE LET l == Head(lines)
         IN  IF l.id \in DOMAIN inv /\ inv[l.id].quantity >= l.quantity
             THEN ApplyLines(Tail(lines),
                     [inv EXCEPT ![l.id].quantity = @ - l.quantity],
                     [hist EXCEPT ![l.id] = Append(@,
                         [type |-> "Venta", quantity_change |-> 0 - l.quantity])])
             ELSE [ok |-> FALSE, inventory |-> inv, history |-> hist]

\* a completion that writes line by line outside a transaction
complete_order_partial(order_id) ==
    LET r == ApplyLines(orders[order_id].ingredients, inventory, history)
    IN  [raised |-> "none", success |-> r.ok,
         message |-> IF r.ok THEN <<"Pedido completado">> ELSE <<"Stock insuficiente">>,
         alerts |-> <<>>,
         inventory |-> r.inventory, history |-> r.history,
         orders |-> IF r.ok THEN [orders EXCEPT ![order_id].status = "completed"]
                    ELSE orders]

\* a complete_order without its try / except
complete_order_unguarded(order_id) ==
    [raised |-> LoadGlobal("_complete_order_atomic"), success |-> FALSE,
     message |-> <<>>, alerts |-> <<>>,
     inventory |-> inventory, history |-> history, orders |-> orders]

\* complete_order: self.db.transaction() builds a local object; evaluating the
\* name _complete_order_atomic at line 136 raises NameError before any store
\* call; `except Exception` turns it into the failure triple of line 139.
complete_order(order_id) ==
    LET e == LoadGlobal("_complete_order_atomic")
    IN  [raised |-> "none", success |-> FALSE,
         message |-> <<"Error en la transaccion", e>>, alerts |-> <<>>,
         inventory |-> inventory, history |-> history, orders |-> orders]

\* firebase.cancel_order(order['id']): the attribute lookup raises
cancel_order(order_id) ==
    [raised |-> GetAttr("cancel_order"), success |-> FALSE, message |-> <<>>,
     alerts |-> <<>>,
     inventory |-> inventory, history |-> history, orders |-> orders]

\* firebase.process_direct_sale(usb_sale_items, sale_id): the attribute lookup raises
process_direct_sale(items, sale_id) ==
    [raised |-> GetAttr("process_direct_sale"), success |-> FALSE, message |-> <<>>,
     alerts |-> <<>>,
     inventory |-> inventory, history |-> history, orders |-> orders]

\* buttons that write the new status without looking at the stored one
order_button_unchecked(button, order_id) ==
    [raised |-> "none", success |-> TRUE, message |-> <<>>, alerts |-> <<>>,
     inventory |-> inventory, history |-> history,
     orders |-> [orders EXCEPT ![order_id].status =
                    IF button = "comp" THEN "completed" ELSE "cancelled"]]

\* the store call behind each of the two buttons of a listed order
order_button(button, order_id) ==
    IF button = "comp" THEN complete_order(order_id) ELSE cancel_order(order_id)

(* ------------------------- BarcodeManager ------------------------------ *)

NoScan == [status |-> "none", item |-> None, barcode |-> ""]

\* handle_inventory_scan(barcode): the item found in the store under the
\* scanned code, or not_found with the code
handle_inventory_scan(barcode) ==
    IF barcode \in DOMAIN inventory
    THEN [status |-> "found", item |-> get_inventory_item_details(barcode), barcode |-> barcode]
    ELSE [status |-> "not_found", item |-> None, barcode |-> barcode]

(* ------------------------ initialize_services -------------------------- *)

\* the FIREBASE_SERVICE_ACCOUNT_BASE64 secret: absent, present but not a
\* service account (base64, JSON or Certificate reject it), or a service account
FirebaseSecrets == {"missing", "invalid", "valid"}

\* the four Twilio secrets: one is absent, all are there but Client(...)
\* raises, or all are there and a client is built
TwilioSecrets == {"missing", "rejected", "present"}

\* the process before the first script run
NotStarted(firebase_secret, twilio_secret) ==
    [secrets |-> [firebase |-> firebase_secret, twilio |-> twilio_secret],
     _app_initialized |-> FALSE, _apps |-> 0, db |-> "none", firebase |-> "none",
     twilio_client |-> "none", run |-> "not_started", error |-> "none"]

\* a FirebaseManager that hands out a client although its secret was refused
initialize_firebase_lenient(sv) ==
    [raised |-> "none", _app_initialized |-> FALSE, _apps |-> sv._apps, db |-> "client"]

\* FirebaseManager._initialize_firebase, reached from __init__ with db = None:
\* a secret that is missing or refused raises inside the try, the except block
\* logs, shows the error and re-raises it; line 73 is not reached
initialize_firebase(sv) ==
    IF sv._app_initialized
    THEN [raised |-> "none", _app_initialized |-> TRUE, _apps |-> sv._apps, db |-> "client"]
    ELSE IF sv.secrets.firebase = "missing"
         THEN [raised |-> "ValueError", _app_initialized |-> FALSE, _apps |-> sv._apps,
               db |-> "none"]
         ELSE IF sv.secrets.firebase = "invalid"
              THEN [raised |-> "DecodeError", _app_initialized |-> FALSE,
                    _apps |-> sv._apps, db |-> "none"]
              ELSE [raised |-> "none", _app_initialized |-> TRUE,
                    _apps |-> IF sv._apps = 0 THEN 1 ELSE sv._apps, db |-> "client"]

\* initialize_services: the handlers are built and returned, or the exception
\* of FirebaseManager() is shown and st.stop() ends the script run
initialize_services(sv) ==
    LET f == initialize_firebase(sv)
    IN  IF f.raised # "none"
        THEN [sv EXCEPT !._app_initialized = f._app_initialized, !._apps = f._apps,
                        !.db = f.db, !.run = "stopped", !.error = f.raised]
        ELSE [sv EXCEPT !._app_initialized = f._app_initialized, !._apps = f._apps,
                        !.db = f.db, !.firebase = "FirebaseManager",
                        !.twilio_client =
                            IF sv.secrets.twilio = "present" THEN "Client" ELSE "none",
                        !.run = "serving"]

\* the process once initialize_services has returned its handlers, Twilio
\* secrets missing
Serving == initialize_services(NotStarted("valid", "missing"))

\* a script run reaches line 68; a run that was stopped there is repeated
\* from the top by the next event of the browser
InitializeServices ==
    /\ services.run \in {"not_started", "stopped"}
    /\ services' = initialize_services(services)
    /\ UNCHANGED <<manager, store, session_state, pc, form, frame, result>>

(* --------------------------- FirebaseManager() ------------------------- *)

\* the most constructions one thread starts
MaxConstructions == 2

\* a thread that is not inside FirebaseManager()
NoManager == [at |-> "none", db |-> "none", raised |-> "none", built |-> 0]

\* a guard that returns at once when the app is initialized, so that only the
\* construction that initializes the app is handed a client
guard_returns_early(initialized) == IF initialized THEN "returned" ELSE "line52"

\* line 50: the try block is entered only while _app_initialized is false,
\* line 73 follows in both cases
guard(initialized) == IF initialized THEN "line73" ELSE "line52"

\* firebase_admin.initialize_app as called at line 63: the default app is
\* registered under the lock of the SDK, a second registration is refused
initialize_app(apps) ==
    IF apps = 0 THEN [raised |-> "none", _apps |-> 1]
                ELSE [raised |-> "ValueError", _apps |-> apps]

\* firestore.client() as called at line 73: a client of the default app
firestore_client(apps) ==
    IF apps = 0 THEN [raised |-> "ValueError", db |-> "none"]
                ELSE [raised |-> "none", db |-> "client"]

Others(s) == UNCHANGED <<store, session_state, pc, form, frame, result>>

\* a thread calls FirebaseManager(): __init__ sets db to None and
\* _initialize_firebase reads the class attribute
Construct(s) ==
    /\ manager[s].at \in {"none", "returned", "raised"}
    /\ manager[s].built < MaxConstructions
    /\ manager' = [manager EXCEPT ![s] =
           [at |-> guard(services._app_initialized), db |-> "none",
            raised |-> "none", built |-> @.built + 1]]
    /\ UNCHANGED services
    /\ Others(s)

\* lines 52-59: the secret is read and decoded; a failure is logged, shown
\* and re-raised by the except block
ReadSecret(s) ==
    /\ manager[s].at = "line52"
    /\ manager' = [manager EXCEPT ![s] =
           IF services.secrets.firebase = "missing"
           THEN [@ EXCEPT !.at = "raised", !.raised = "ValueError"]
           ELSE IF services.secrets.firebase = "invalid"
                THEN [@ EXCEPT !.at = "raised", !.raised = "DecodeError"]
                ELSE [@ EXCEPT !.at = "line62"]]
    /\ UNCHANGED services
    /\ Others(s)

\* line 62: the test of firebase_admin._apps
TestApps(s) ==
    /\ manager[s].at = "line62"
    /\ manager' = [manager EXCEPT ![s].at =
           IF services._apps = 0 THEN "line63" ELSE "line66"]
    /\ UNCHANGED services
    /\ Others(s)

\* line 63: the call of initialize_app; its exception is re-raised at line 71
InitializeApp(s) ==
    /\ manager[s].at = "line63"
    /\ LET r == initialize_app(services._apps)
       IN  /\ services' = [services EXCEPT !._apps = r._apps]
           /\ manager' = [manager EXCEPT ![s] =
                  IF r.raised # "none"
                  THEN [@ EXCEPT !.at = "raised", !.raised = r.raised]
                  ELSE [@ EXCEPT !.at = "line66"]]
    /\ Others(s)

\* line 66: the class attribute is set
SetInitialized(s) ==
    /\ manager[s].at = "line66"
    /\ services' = [services EXCEPT !._app_initialized = TRUE]
    /\ manager' = [manager EXCEPT ![s].at = "line73"]
    /\ Others(s)

\* line 73: the client is assigned and __init__ returns
AssignClient(s) ==
    /\ manager[s].at = "line73"
    /\ LET r == firestore_client(services._apps)
       IN  manager' = [manager EXCEPT ![s] =
               IF r.raised # "none"
               THEN [@ EXCEPT !.at = "raised", !.raised = r.raised]
               ELSE [@ EXCEPT !.at = "returned", !.db = r.db]]
    /\ UNCHANGED services
    /\ Others(s)

(* ------------------------------- Init ---------------------------------- *)

Statuses == {"processing", "completed", "cancelled"}

\* the ingredient lines of the orders found in the store
Ingredients ==
    [o1 |-> <<[id |-> "A", quantity |-> 1]>>,
     o2 |-> <<[id |-> "A", quantity |-> 1], [id |-> "B", quantity |-> 1]>>]

\* their frozen prices
Price == [o1 |-> 5, o2 |-> 9]

\* the orders collection as the application finds it
InitialOrders ==
    {[o \in OrderIds |->
        [status |-> st[o], ingredients |-> Ingredients[o], price |-> Price[o]]] :
     st \in [OrderIds -> Statuses]}

NoForm == [name |-> "none", custom_id |-> "", data |-> None, is_new |-> FALSE, details |-> ""]
NoResult == [handler |-> "none", outcome |-> "none", detail |-> <<>>, alerts |-> <<>>]

Init ==
    /\ inventory = None
    /\ history = [i \in ItemIds |-> <<>>]
    /\ orders \in InitialOrders
    /\ page = [s \in Sessions |-> "Inicio"]
    /\ usb_scan_result = [s \in Sessions |-> NoScan]
    /\ editing_item_id = [s \in Sessions |-> ""]
    /\ processing_orders = [s \in Sessions |-> {}]
    /\ pc = [s \in Sessions |-> "idle"]
    /\ form = [s \in Sessions |-> NoForm]
    /\ frame = [s \in Sessions |-> NoFrame]
    /\ result = [s \in Sessions |-> NoResult]
    /\ manager = [s \in Sessions |-> NoManager]
    /\ services = Serving

(* ------------------------ page handlers (app.py) ----------------------- *)

Pages == {"Inicio", "Escaner USB", "Inventario", "Pedidos"}

\* the script got past initialize_services and no handler of s is running
Idle(s) == pc[s] = "idle" /\ services.run = "serving"

\* bool(v) of a dict or None
Truthy(v) == DOMAIN v # {}

Shown(handler, outcome, detail) ==
    [handler |-> handler, outcome |-> outcome, detail |-> detail, alerts |-> <<>>]

\* a sidebar button: the page changes and the per-page session state is reset
Navigate(s, p) ==
    /\ Idle(s)
    /\ p # page[s]
    /\ page' = [page EXCEPT ![s] = p]
    /\ editing_item_id' = [editing_item_id EXCEPT ![s] = ""]
    /\ usb_scan_result' = [usb_scan_result EXCEPT ![s] = NoScan]
    /\ result' = [result EXCEPT ![s] = NoResult]
    /\ frame' = [frame EXCEPT ![s] = NoFrame]
    /\ UNCHANGED <<manager, services, store, processing_orders, pc, form>>

\* a handler calls a wrapped FirebaseManager method
Call(s, f, func) ==
    /\ form' = [form EXCEPT ![s] = f]
    /\ frame' = [frame EXCEPT ![s] = NewFrame(func)]
    /\ pc' = [pc EXCEPT ![s] = FirstStep(func)]

\* a handler ends by showing a message, without a store call
Show(s, handler, outcome, detail) ==
    /\ result' = [result EXCEPT ![s] = Shown(handler, outcome, detail)]
    /\ frame' = [frame EXCEPT ![s] = NoFrame]
    /\ UNCHANGED <<pc, form>>

\* add_item_form_new, "Guardar Nuevo Articulo"
AddItemSubmit(s, custom_id, name, quantity, min_stock_alert) ==
    /\ Idle(s)
    /\ page[s] = "Inventario"
    /\ editing_item_id[s] = ""
    /\ number_input(quantity, 0)
    /\ number_input(min_stock_alert, 0)
    /\ custom_id # "" => Len(history[custom_id]) < MaxHist
    /\ IF custom_id # "" /\ name # ""
       THEN /\ Call(s, [name |-> "add_item_form_new", custom_id |-> custom_id,
                        data |-> [name |-> name, quantity |-> quantity,
                                  min_stock_alert |-> min_stock_alert],
                        is_new |-> TRUE, details |-> ""],
                    "get_inventory_item_details")
            /\ result' = [result EXCEPT ![s] = NoResult]
       ELSE Show(s, "add_item_form_new", "error", <<"El ID y el Nombre son obligatorios.">>)
    /\ UNCHANGED <<manager, services, store, session_state>>

\* the edit button of a listed item
EditClick(s, i) ==
    /\ Idle(s)
    /\ page[s] = "Inventario"
    /\ editing_item_id[s] = ""
    /\ i \in DOMAIN inventory
    /\ editing_item_id' = [editing_item_id EXCEPT ![s] = i]
    /\ result' = [result EXCEPT ![s] = NoResult]
    /\ frame' = [frame EXCEPT ![s] = NoFrame]
    /\ UNCHANGED <<manager, services, store, page, usb_scan_result, processing_orders, pc, form>>

\* edit_item_form, "Guardar Cambios": the rerun reads the item again, then saves
EditItemSubmit(s, name, quantity, min_stock_alert) ==
    /\ Idle(s)
    /\ page[s] = "Inventario"
    /\ editing_item_id[s] # ""
    /\ number_input(quantity, 0)
    /\ number_input(min_stock_alert, 0)
    /\ Len(history[editing_item_id[s]]) < MaxHist
    /\ Call(s, [name |-> "edit_item_form", custom_id |-> editing_item_id[s],
                data |-> [name |-> name, quantity |-> quantity,
                          min_stock_alert |-> min_stock_alert],
                is_new |-> FALSE, details |-> "Edicion manual de datos."],
            "get_inventory_item_details")
    /\ result' = [result EXCEPT ![s] = NoResult]
    /\ UNCHANGED <<manager, services, store, session_state>>

\* edit_item_form, "Cancelar"
EditCancel(s) ==
    /\ Idle(s)
    /\ page[s] = "Inventario"
    /\ editing_item_id[s] # ""
    /\ editing_item_id' = [editing_item_id EXCEPT ![s] = ""]
    /\ result' = [result EXCEPT ![s] = NoResult]
    /\ frame' = [frame EXCEPT ![s] = NoFrame]
    /\ UNCHANGED <<manager, services, store, page, usb_scan_result, processing_orders, pc, form>>

\* usb_inventory_scan_form, "Buscar / Registrar"
UsbInventoryScan(s, barcode) ==
    /\ Idle(s)
    /\ page[s] = "Escaner USB"
    /\ barcode # ""
    /\ usb_scan_result' = [usb_scan_result EXCEPT ![s] = handle_inventory_scan(barcode)]
    /\ result' = [result EXCEPT ![s] = NoResult]
    /\ frame' = [frame EXCEPT ![s] = NoFrame]
    /\ UNCHANGED <<manager, services, store, page, editing_item_id, processing_orders, pc, form>>

\* update_item_form, "Actualizar Producto": the scanned snapshot with the new quantity
UpdateItemSubmit(s, new_quantity) ==
    /\ Idle(s)
    /\ page[s] = "Escaner USB"
    /\ usb_scan_result[s].status = "found"
    /\ number_input(new_quantity, 0)
    /\ LET item == usb_scan_result[s].item
       IN  /\ Len(history[item.id]) < MaxHist
           /\ Call(s, [name |-> "update_item_form", custom_id |-> item.id,
                       data |-> SetMerge(item, [quantity |-> new_quantity]),
                       is_new |-> FALSE, details |-> "Actualizacion via Escaner USB."],
                   "save_inventory_item")
    /\ result' = [result EXCEPT ![s] = NoResult]
    /\ UNCHANGED <<manager, services, store, session_state>>

\* create_from_usb_scan_form, "Guardar Nuevo Producto"
CreateFromUsbScanSubmit(s, name, quantity) ==
    /\ Idle(s)
    /\ page[s] = "Escaner USB"
    /\ usb_scan_result[s].status = "not_found"
    /\ number_input(quantity, 1)
    /\ Len(history[usb_scan_result[s].barcode]) < MaxHist
    /\ IF name # "" /\ quantity > 0
       THEN /\ Call(s, [name |-> "create_from_usb_scan_form",
                        custom_id |-> usb_scan_result[s].barcode,
                        data |-> [name |-> name, quantity |-> quantity],
                        is_new |-> TRUE, details |-> "Creado via Escaner USB."],
                    "save_inventory_item")
            /\ result' = [result EXCEPT ![s] = NoResult]
       ELSE Show(s, "create_from_usb_scan_form", "warning",
                 <<"El nombre y la cantidad son obligatorios.">>)
    /\ UNCHANGED <<manager, services, store, session_state>>

(* --------------- the store calls of a handler, step by step ------------ *)

\* the body of get_inventory_item_details runs and the wrapper returns its value
GetDetails(s) ==
    /\ pc[s] = "details"
    /\ frame' = [frame EXCEPT ![s] =
                    Returned(@, get_inventory_item_details(form[s].custom_id))]
    /\ pc' = [pc EXCEPT ![s] = "branch"]
    /\ UNCHANGED <<manager, services, store, session_state, form, result>>

\* the handler tests the value it read:
\*   add_item_form_new   `if not firebase.get_inventory_item_details(custom_id)`
\*   edit_item_form      `if item_to_edit:` ... `if name:`
Branch(s) ==
    /\ pc[s] = "branch"
    /\ LET f == form[s]
           found == Truthy(frame[s].value)
           save == (f.name = "add_item_form_new" /\ ~found)
                   \/ (f.name = "edit_item_form" /\ found /\ f.data.name # "")
       IN  IF save
           THEN /\ Call(s, f, "save_inventory_item")
                /\ UNCHANGED <<result, editing_item_id>>
           ELSE /\ pc' = [pc EXCEPT ![s] = "idle"]
                /\ form' = [form EXCEPT ![s] = NoForm]
                /\ UNCHANGED frame
                /\ result' = [result EXCEPT ![s] =
                     IF f.name = "add_item_form_new"
                     THEN Shown(f.name, "error", <<"El ID ya existe.">>)
                     ELSE IF ~found
                          THEN Shown(f.name, "error",
                                     <<"No se pudo cargar el articulo para editar.">>)
                          ELSE NoResult]
                /\ editing_item_id' = [editing_item_id EXCEPT ![s] =
                     IF f.name = "edit_item_form" /\ ~found THEN "" ELSE @]
    /\ UNCHANGED <<manager, services, store, page, usb_scan_result, processing_orders>>

\* save_inventory_item, line 80: the document is written
SetDoc(s) ==
    /\ pc[s] = "set"
    /\ inventory' = save_set(form[s].data, form[s].custom_id)
    /\ pc' = [pc EXCEPT ![s] = "add"]
    /\ UNCHANGED <<manager, services, history, orders, session_state, form, frame, result>>

\* save_inventory_item, line 87: the history entry is added, the method and the
\* wrapper return None, and the handler shows its success and clears its state
AddHistory(s) ==
    /\ pc[s] = "add"
    /\ LET f == form[s]
       IN  /\ history' = save_add(f.data, f.custom_id, f.is_new, f.details)
           /\ frame' = [frame EXCEPT ![s] = Returned(@, None)]
           /\ result' = [result EXCEPT ![s] = Shown(f.name, "success", <<>>)]
           /\ usb_scan_result' = [usb_scan_result EXCEPT ![s] =
                IF f.name \in {"update_item_form", "create_from_usb_scan_form"}
                THEN NoScan ELSE @]
           /\ editing_item_id' = [editing_item_id EXCEPT ![s] =
                IF f.name = "edit_item_form" THEN "" ELSE @]
    /\ pc' = [pc EXCEPT ![s] = "idle"]
    /\ form' = [form EXCEPT ![s] = NoForm]
    /\ UNCHANGED <<manager, services, inventory, orders, page, processing_orders>>

\* a store call of the running attempt raises e: the wrapper logs, sleeps,
\* doubles the delay and invokes the method again, or gives up after the last
\* attempt; what it raises then ends the handler
Fault(s, e) ==
    /\ pc[s] \in {"details", "set", "add"}
    /\ LET g == AfterFailure(frame[s], e)
       IN  IF g.attempt < max_retries
           THEN /\ frame' = [frame EXCEPT ![s] = [g EXCEPT !.calls = @ + 1]]
                /\ pc' = [pc EXCEPT ![s] = FirstStep(g.func)]
                /\ UNCHANGED <<form, result>>
           ELSE /\ frame' = [frame EXCEPT ![s] = Exhausted(g)]
                /\ pc' = [pc EXCEPT ![s] = "idle"]
                /\ form' = [form EXCEPT ![s] = NoForm]
                /\ result' = [result EXCEPT ![s] =
                     Shown(form[s].name, "exception", <<Exhausted(g).raised>>)]
    /\ UNCHANGED <<manager, services, store, session_state>>

(* ------------------------- orders and sales ---------------------------- *)

\* what a handler shows for the outcome r of an order or sale call
ShownFor(handler, r) ==
    IF r.raised # "none" THEN Shown(handler, "exception", <<r.raised>>)
    ELSE IF r.success
         THEN [Shown(handler, "success", r.message) EXCEPT !.alerts = r.alerts]
         ELSE Shown(handler, "error", r.message)

\* the Pedidos page runs: processing_orders = firebase.get_orders('processing')
OrdersRerun(s) ==
    /\ Idle(s)
    /\ page[s] = "Pedidos"
    /\ processing_orders' = [processing_orders EXCEPT ![s] = get_orders("processing")]
    /\ pc' = [pc EXCEPT ![s] = "buttons"]
    /\ result' = [result EXCEPT ![s] = NoResult]
    /\ frame' = [frame EXCEPT ![s] = NoFrame]
    /\ UNCHANGED <<manager, services, store, page, usb_scan_result, editing_item_id, form>>

\* one of the two buttons of a listed order was pressed
OrderButton(s, button, order_id) ==
    /\ pc[s] = "buttons"
    /\ order_id \in processing_orders[s]
    /\ LET r == order_button(button, order_id)
       IN  /\ inventory' = r.inventory
           /\ history' = r.history
           /\ orders' = r.orders
           /\ result' = [result EXCEPT ![s] = ShownFor(button, r)]
    /\ pc' = [pc EXCEPT ![s] = "idle"]
    /\ UNCHANGED <<manager, services, session_state, form, frame>>

\* "Completar Pedido"
CompleteOrderButton(s, order_id) == OrderButton(s, "comp", order_id)

\* "Cancelar Pedido"
CancelOrderButton(s, order_id) == OrderButton(s, "canc", order_id)

\* the page run ends with no order button pressed
NoOrderButton(s) ==
    /\ pc[s] = "buttons"
    /\ pc' = [pc EXCEPT ![s] = "idle"]
    /\ UNCHANGED <<manager, services, store, session_state, form, frame, result>>

\* the sale lists a session can have scanned
SaleLists ==
    {<<[id |-> "A", quantity |-> 1]>>,
     <<[id |-> "A", quantity |-> 1], [id |-> "B", quantity |-> 1]>>}

\* "Finalizar y Descontar Stock"
FinalizeSale(s, items) ==
    /\ Idle(s)
    /\ page[s] = "Escaner USB"
    /\ LET r == process_direct_sale(items, "VentaDirecta")
       IN  /\ inventory' = r.inventory
           /\ history' = r.history
           /\ orders' = r.orders
           /\ result' = [result EXCEPT ![s] = ShownFor("sale", r)]
    /\ frame' = [frame EXCEPT ![s] = NoFrame]
    /\ UNCHANGED <<manager, services, session_state, pc, form>>

\* firebase.get_order_count(): the attribute lookup raises
get_order_count ==
    [raised |-> GetAttr("get_order_count"), value |-> Cardinality(DOMAIN orders)]

\* firebase.create_order(order_data): the attribute lookup raises
create_order(order_data) ==
    [raised |-> GetAttr("create_order"), success |-> FALSE, message |-> <<>>,
     alerts |-> <<>>,
     inventory |-> inventory, history |-> history, orders |-> orders]

\* the total prices a list of order lines can come to
OrderPrices == {5}

\* the Pedidos page runs with order_items filled: the order_form block asks for
\* the order count, and on "Crear Pedido" hands order_data to create_order
CreateOrder(s, lines, price) ==
    /\ Idle(s)
    /\ page[s] = "Pedidos"
    /\ LET c == get_order_count
           order_data == [status |-> "processing", ingredients |-> lines, price |-> price]
           r == IF c.raised # "none"
                THEN [create_order(order_data) EXCEPT !.raised = c.raised]
                ELSE create_order(order_data)
       IN  /\ inventory' = r.inventory
           /\ history' = r.history
           /\ orders' = r.orders
           /\ result' = [result EXCEPT ![s] = ShownFor("order_form", r)]
    /\ frame' = [frame EXCEPT ![s] = NoFrame]
    /\ UNCHANGED <<manager, services, session_state, pc, form>>

(* ------------------------------ Inicio --------------------------------- *)

\* bool(item.get(key)) of a numeric field: None (no such key) and 0 are falsy
GetTruthy(item, key) == IF key \in DOMAIN item THEN item[key] # 0 ELSE FALSE

\* the list comprehension of the "Alertas de Stock Bajo" column, over the ids
\* of the items that were loaded
low_stock_items(items) ==
    {i \in items :
        /\ GetTruthy(inventory[i], "min_stock_alert")
        /\ Get(inventory[i], "quantity", 0) <= Get(inventory[i], "min_stock_alert", 0)}

\* a list holding the elements of a set
ListOf(S) == CHOOSE q \in [1..Cardinality(S) -> S] : {q[k] : k \in 1..Cardinality(S)} = S

\* the Inicio page runs: the items are loaded (an exception of the load leaves
\* the empty list) and the low-stock warnings are shown
InicioRerun(s) ==
    /\ Idle(s)
    /\ page[s] = "Inicio"
    /\ \E loaded \in BOOLEAN :
          LET items == IF loaded THEN DOMAIN inventory ELSE {}
          IN  result' = [result EXCEPT ![s] =
                  [handler |-> "Inicio",
                   outcome |-> IF loaded THEN "loaded" ELSE "warning",
                   detail |-> <<>>,
                   alerts |-> ListOf(low_stock_items(items))]]
    /\ frame' = [frame EXCEPT ![s] = NoFrame]
    /\ UNCHANGED <<manager, services, store, session_state, pc, form>>

(* ------------------------- send_whatsapp_alert ------------------------- *)

\* what twilio_client.messages.create does
SendOutcomes == {"ok", "raises"}

\* a send_whatsapp_alert without its try / except
send_whatsapp_alert_unguarded(twilio_client, send) ==
    IF twilio_client = "none"
    THEN [raised |-> "none", shown |-> "Twilio no configurado. Alerta no enviada."]
    ELSE IF send = "ok"
         THEN [raised |-> "none", shown |-> "Alerta de WhatsApp enviada"]
         ELSE [raised |-> "TwilioRestException", shown |-> ""]

\* send_whatsapp_alert(message): without a client a toast and return; with one
\* the send, whose exception is caught and shown
send_whatsapp_alert(twilio_client, send) ==
    IF twilio_client = "none"
    THEN [raised |-> "none", shown |-> "Twilio no configurado. Alerta no enviada."]
    ELSE IF send = "ok"
         THEN [raised |-> "none", shown |-> "Alerta de WhatsApp enviada"]
         ELSE [raised |-> "none", shown |-> "Error al enviar alerta de Twilio"]

\* a handler calls send_whatsapp_alert(message)
SendWhatsappAlert(s, send) ==
    /\ Idle(s)
    /\ LET r == send_whatsapp_alert(services.twilio_client, send)
       IN  result' = [result EXCEPT ![s] =
               IF r.raised # "none"
               THEN Shown("send_whatsapp_alert", "exception", <<r.raised>>)
               ELSE Shown("send_whatsapp_alert", "shown", <<r.shown>>)]
    /\ frame' = [frame EXCEPT ![s] = NoFrame]
    /\ UNCHANGED <<manager, services, store, session_state, pc, form>>

(* ------------------------- the item listing ---------------------------- *)

\* the Inventario page runs with no item being edited: the items are loaded
\* and listed
ListItems(s) ==
    /\ Idle(s)
    /\ page[s] = "Inventario"
    /\ editing_item_id[s] = ""
    /\ result' = [result EXCEPT ![s] =
           Shown("get_all_inventory_items", "listed", get_all_inventory_items)]
    /\ frame' = [frame EXCEPT ![s] = NoFrame]
    /\ UNCHANGED <<manager, services, store, session_state, pc, form>>

(* ------------------------ generate_daily_report ------------------------ *)

\* the names bound at module level of gemini_utils.py
GeminiModuleGlobals ==
    {"genai", "logging", "Image", "st", "json", "datetime", "logger", "GeminiUtils"}

\* evaluating a global name inside a method body of gemini_utils.py
LoadGeminiGlobal(name) == IF name \in GeminiModuleGlobals THEN "ok" ELSE "NameError"

\* self.model: None or a GenerativeModel
Models == {"none", "GenerativeModel"}

\* what self.model.generate_content(prompt) does: it raises, or its text is
\* empty, holds no braces, holds braces around something that is not JSON,
\* holds an object lacking a report key, or holds an object with all of them
Responses == {"raises", "empty", "no_json", "malformed", "incomplete", "complete"}

\* the keys a report must hold
ReportKeys ==
    {"resumen_ejecutivo", "observaciones_clave", "recomendaciones_estrategicas",
     "elaborado_por"}

\* a returned JSON object string, by the keys of its object
JsonObject(keys) == [raised |-> "none", keys |-> keys]

\* generate_daily_report(orders): the two early returns, then the totals and
\* the prompt (lines 82-121, outside the try block; line 99 evaluates the
\* global name timezone), then the call of the model and the validation of
\* its answer inside try / except Exception
generate_daily_report(model, order_list, response) ==
    IF model = "none" THEN JsonObject({"error"})
    ELSE IF order_list = <<>> THEN JsonObject(ReportKeys \cup {"metadata"})
    ELSE IF LoadGeminiGlobal("timezone") # "ok"
         THEN [raised |-> "NameError", keys |-> {}]
    ELSE IF response = "complete" THEN JsonObject(ReportKeys)
    ELSE IF response \in {"raises", "empty"} THEN JsonObject({"error"})
    ELSE JsonObject({"error", "raw_response"})

\* a caller hands a list of completed orders of the store to the report
GenerateDailyReport(s, model, completed, response) ==
    /\ Idle(s)
    /\ completed \subseteq get_orders("completed")
    /\ LET r == generate_daily_report(model, ListOf(completed), response)
       IN  result' = [result EXCEPT ![s] =
               IF r.raised # "none"
               THEN Shown("generate_daily_report", "exception", <<r.raised>>)
               ELSE Shown("generate_daily_report", "returned", ListOf(r.keys))]
    /\ frame' = [frame EXCEPT ![s] = NoFrame]
    /\ UNCHANGED <<manager, services, store, session_state, pc, form>>

(* ------------------------------ Next ----------------------------------- *)

\* what a session does on the Inventario and Escaner USB pages, typing the
\* codes of ids
InventoryForms(s, ids) ==
    \/ \E id \in ids \cup {""}, n \in NameInputs, q \in QtyInputs, m \in AlertInputs :
          AddItemSubmit(s, id, n, q, m)
    \/ \E i \in ids : EditClick(s, i)
    \/ \E n \in NameInputs, q \in QtyInputs, m \in AlertInputs :
          EditItemSubmit(s, n, q, m)
    \/ EditCancel(s)
    \/ \E b \in ids : UsbInventoryScan(s, b)
    \/ \E q \in QtyInputs : UpdateItemSubmit(s, q)
    \/ \E n \in NameInputs, q \in QtyInputs : CreateFromUsbScanSubmit(s, n, q)

\* the store calls of the running handler succeed
StoreSteps(s) ==
    \/ GetDetails(s)
    \/ Branch(s)
    \/ SetDoc(s)
    \/ AddHistory(s)

\* a store call of the running handler fails
StoreFaults(s) == \E e \in ExcKinds : Fault(s, e)

\* what a session does with orders and sales
OrderForms(s) ==
    \/ OrdersRerun(s)
    \/ \E o \in OrderIds : CompleteOrderButton(s, o)
    \/ \E o \in OrderIds : CancelOrderButton(s, o)
    \/ NoOrderButton(s)
    \/ \E items \in SaleLists : FinalizeSale(s, items)

Next ==
    \E s \in Sessions :
        \/ \E p \in Pages : Navigate(s, p)
        \/ InventoryForms(s, ItemIds)
        \/ StoreSteps(s)
        \/ StoreFaults(s)
        \/ OrderForms(s)
        \/ InicioRerun(s)
        \/ \E lines \in SaleLists, price \in OrderPrices : CreateOrder(s, lines, price)
        \/ \E send \in SendOutcomes : SendWhatsappAlert(s, send)
        \/ InitializeServices

Spec == Init /\ [][Next]_vars

\* every order of the store still in process
AllProcessing ==
    [o \in OrderIds |->
        [status |-> "processing", ingredients |-> Ingredients[o], price |-> Price[o]]]

\* the application starts on a store whose orders are all in process
InitProcessing ==
    /\ inventory = None
    /\ history = [i \in ItemIds |-> <<>>]
    /\ orders = AllProcessing
    /\ page = [s \in Sessions |-> "Inicio"]
    /\ usb_scan_result = [s \in Sessions |-> NoScan]
    /\ editing_item_id = [s \in Sessions |-> ""]
    /\ processing_orders = [s \in Sessions |-> {}]
    /\ pc = [s \in Sessions |-> "idle"]
    /\ form = [s \in Sessions |-> NoForm]
    /\ frame = [s \in Sessions |-> NoFrame]
    /\ result = [s \in Sessions |-> NoResult]
    /\ manager = [s \in Sessions |-> NoManager]
    /\ services = Serving

\* one session works on one item while the store calls fail at will
NextRetry ==
    \/ \E p \in Pages : Navigate("s1", p)
    \/ InventoryForms("s1", {"A"})
    \/ StoreSteps("s1")
    \/ StoreFaults("s1")

SpecRetry == InitProcessing /\ [][NextRetry]_vars

\* the sessions work on one item concurrently
NextInventory ==
    \E s \in Sessions :
        \/ \E p \in Pages : Navigate(s, p)
        \/ InventoryForms(s, {"A"})
        \/ StoreSteps(s)

SpecInventory == InitProcessing /\ [][NextInventory]_vars

\* one session stocks the items while both work on the orders and sales
NextOrders ==
    \/ \E id \in ItemIds, q \in QtyInputs, m \in AlertInputs :
          AddItemSubmit("s1", id, "a", q, m)
    \/ StoreSteps("s1")
    \/ \E s \in Sessions :
          \/ \E p \in {"Inventario", "Escaner USB", "Pedidos"} : Navigate(s, p)
          \/ OrderForms(s)
          \/ \E lines \in SaleLists, price \in OrderPrices : CreateOrder(s, lines, price)

SpecOrders == Init /\ [][NextOrders]_vars

\* one session edits, scans and creates one item while its store calls fail at
\* will, the other works on the orders and the direct sales
NextStock ==
    \/ NextRetry
    \/ \E p \in {"Escaner USB", "Pedidos"} : Navigate("s2", p)
    \/ OrderForms("s2")

SpecStock == Init /\ [][NextStock]_vars

\* one session fills the inventory and looks at the Inicio page
NextHome ==
    \/ \E p \in Pages : Navigate("s1", p)
    \/ InventoryForms("s1", {"A"})
    \/ StoreSteps("s1")
    \/ InicioRerun("s1")

SpecHome == InitProcessing /\ [][NextHome]_vars

\* the process before its first script run, with any secrets
InitStartup ==
    /\ inventory = None
    /\ history = [i \in ItemIds |-> <<>>]
    /\ orders = AllProcessing
    /\ page = [s \in Sessions |-> "Inicio"]
    /\ usb_scan_result = [s \in Sessions |-> NoScan]
    /\ editing_item_id = [s \in Sessions |-> ""]
    /\ processing_orders = [s \in Sessions |-> {}]
    /\ pc = [s \in Sessions |-> "idle"]
    /\ form = [s \in Sessions |-> NoForm]
    /\ frame = [s \in Sessions |-> NoFrame]
    /\ result = [s \in Sessions |-> NoResult]
    /\ manager = [s \in Sessions |-> NoManager]
    /\ services \in {NotStarted(f, w) : f \in FirebaseSecrets, w \in TwilioSecrets}

\* the process starts, and one session fills the inventory and sends alerts
NextStartup ==
    \/ InitializeServices
    \/ \E p \in Pages : Navigate("s1", p)
    \/ InventoryForms("s1", {"A"})
    \/ StoreSteps("s1")
    \/ \E send \in SendOutcomes : SendWhatsappAlert("s1", send)

SpecStartup == InitStartup /\ [][NextStartup]_vars

\* a process whose threads construct managers, with any Firebase secret
InitConstruct ==
    /\ inventory = None
    /\ history = [i \in ItemIds |-> <<>>]
    /\ orders = AllProcessing
    /\ page = [s \in Sessions |-> "Inicio"]
    /\ usb_scan_result = [s \in Sessions |-> NoScan]
    /\ editing_item_id = [s \in Sessions |-> ""]
    /\ processing_orders = [s \in Sessions |-> {}]
    /\ pc = [s \in Sessions |-> "idle"]
    /\ form = [s \in Sessions |-> NoForm]
    /\ frame = [s \in Sessions |-> NoFrame]
    /\ result = [s \in Sessions |-> NoResult]
    /\ manager = [s \in Sessions |-> NoManager]
    /\ services \in {NotStarted(f, "missing") : f \in FirebaseSecrets}

\* the threads run their constructions line by line, in any interleaving
NextConstruct ==
    \E s \in Sessions :
        \/ Construct(s)
        \/ ReadSecret(s)
        \/ TestApps(s)
        \/ InitializeApp(s)
        \/ SetInitialized(s)
        \/ AssignClient(s)

SpecConstruct == InitConstruct /\ [][NextConstruct]_vars

\* both sessions move between the pages and ask for reports
NextReport ==
    \E s \in Sessions :
        \/ \E p \in Pages : Navigate(s, p)
        \/ \E model \in Models, completed \in SUBSET OrderIds, response \in Responses :
              GenerateDailyReport(s, model, completed, response)

SpecReport == Init /\ [][NextReport]_vars

\* the documents a store can hold for an item: with or without a name
StoredDocs ==
    {[name |-> n, quantity |-> 0] : n \in StoredNames} \cup {[quantity |-> 0]}

\* a store found with any items in it
InitListing ==
    /\ \E ids \in SUBSET ItemIds : inventory \in [ids -> StoredDocs]
    /\ history = [i \in ItemIds |-> <<>>]
    /\ orders = AllProcessing
    /\ page = [s \in Sessions |-> "Inicio"]
    /\ usb_scan_result = [s \in Sessions |-> NoScan]
    /\ editing_item_id = [s \in Sessions |-> ""]
    /\ processing_orders = [s \in Sessions |-> {}]
    /\ pc = [s \in Sessions |-> "idle"]
    /\ form = [s \in Sessions |-> NoForm]
    /\ frame = [s \in Sessions |-> NoFrame]
    /\ result = [s \in Sessions |-> NoResult]
    /\ manager = [s \in Sessions |-> NoManager]
    /\ services = Serving

\* both sessions move between the pages and list the items
NextListing ==
    \E s \in Sessions :
        \/ \E p \in Pages : Navigate(s, p)
        \/ ListItems(s)

SpecListing == InitListing /\ [][NextListing]_vars

\* the same, with every running store call eventually answered
SpecRetryFair == SpecRetry /\ WF_vars(StoreSteps("s1"))

(* ---------------------------- properties ------------------------------- *)

\* a save of item i is between its first store call and its return
Saving(i) ==
    \E s \in Sessions : pc[s] \in {"set", "add"} /\ form[s].custom_id = i

\* C1: after every committed write (the creation of an item and any number of
\* later updates), the stored quantity of the item equals the sum of
\* quantity_change over the entries of its history.
C1_LedgerConsistency ==
    \A i \in DOMAIN inventory :
        ~Saving(i) => inventory[i].quantity = SumChanges(history[i])

\* C2: after any sequence of committed writes the stored quantity of every
\* item is >= 0, and no write carries a negative quantity to the store.
C2_NonNegative ==
    /\ \A i \in DOMAIN inventory : inventory[i].quantity >= 0
    /\ \A s \in Sessions :
          "quantity" \in DOMAIN form[s].data => form[s].data.quantity >= 0

\* an item created with stock, then brought down to 0 by a later update
C2_Witness ==
    /\ "A" \in DOMAIN inventory
    /\ inventory["A"].quantity = 0
    /\ Len(history["A"]) = 2
    /\ history["A"][1].quantity_change = 1
    /\ result["s1"].outcome = "success"

\* the stock of an item, 0 for an item the store does not hold
Stock(id) == IF id \in DOMAIN inventory THEN inventory[id].quantity ELSE 0

\* at least one line asks for more than the stock of its item
Insufficient(lines) ==
    \E k \in 1..Len(lines) : Stock(lines[k].id) - lines[k].quantity < 0

\* the items of the lines that are short
ShortItems(lines) ==
    {lines[k].id : k \in {n \in 1..Len(lines) : Stock(lines[n].id) < lines[n].quantity}}

\* the items a message names
Named(message) == {message[k] : k \in DOMAIN message} \cap ItemIds

\* the quantity of every item and every history are as before
StockUntouched == inventory' = inventory /\ history' = history

\* C3: an order completion or a direct sale with at least one line that
\* would drive its item's quantity negative fails, and afterwards every
\* quantity is unchanged and no history entry has been appended.
C3_Atomicity ==
    [][\A s \in Sessions :
          /\ \A o \in OrderIds :
                (CompleteOrderButton(s, o) /\ Insufficient(orders[o].ingredients)) =>
                    (result'[s].outcome \in {"error", "exception"} /\ StockUntouched)
          /\ \A items \in SaleLists :
                (FinalizeSale(s, items) /\ Insufficient(items)) =>
                    (result'[s].outcome \in {"error", "exception"} /\ StockUntouched)]_vars

\* the completion of the two-line order has failed with its first line in
\* stock and its second line short
C3_Witness ==
    \E s \in Sessions :
        /\ result[s].handler = "comp"
        /\ result[s].outcome = "error"
        /\ processing_orders[s] = {"o2"}
        /\ "B" \in DOMAIN inventory
        /\ Stock("A") = 1
        /\ Stock("B") = 0

\* C4: completing an order that is processing and whose every line is in
\* stock succeeds: each quantity goes down by its line, one history entry per
\* line records the negative line quantity, and the order becomes completed.
C4_CompletionSucceeds ==
    [][\A s \in Sessions, o \in OrderIds :
          (/\ CompleteOrderButton(s, o)
           /\ orders[o].status = "processing"
           /\ ~Insufficient(orders[o].ingredients)) =>
              /\ result'[s].outcome = "success"
              /\ orders'[o].status = "completed"
              /\ \A k \in 1..Len(orders[o].ingredients) :
                    LET l == orders[o].ingredients[k]
                    IN  /\ Stock(l.id)' = Stock(l.id) - l.quantity
                        /\ Len(history'[l.id]) = Len(history[l.id]) + 1
                        /\ history'[l.id][Len(history'[l.id])].quantity_change
                              = 0 - l.quantity]_vars

\* C5: the only changes of an order's status are processing -> completed and
\* processing -> cancelled; a completed or cancelled order keeps its status.
C5_StatusMonotonic ==
    [][\A o \in OrderIds :
          orders'[o].status # orders[o].status =>
              /\ orders[o].status = "processing"
              /\ orders'[o].status \in {"completed", "cancelled"}]_vars

\* two sessions that listed the same processing order have both pressed one
\* of its buttons, next to an order that is already completed
C5_Witness ==
    /\ orders["o1"].status = "completed"
    /\ "o2" \in processing_orders["s1"] \cap processing_orders["s2"]
    /\ result["s1"].handler = "canc"
    /\ result["s2"].handler = "comp"

\* C6: complete and cancel on an order that is not processing fail with an
\* InvalidStateError outcome and leave the order and the quantities unchanged.
C6_InvalidState ==
    \A o \in OrderIds :
        orders[o].status # "processing" =>
            LET r == complete_order(o)
                c == cancel_order(o)
            IN  /\ ~r.success
                /\ "InvalidStateError" \in {r.message[k] : k \in DOMAIN r.message}
                /\ c.raised = "InvalidStateError"
                /\ r.orders = orders /\ r.inventory = inventory
                /\ c.orders = orders /\ c.inventory = inventory

\* C7: when a completion fails for a short line, the order stays processing
\* and the failure shown to the caller names the items that are short.
C7_ShortItemsNamed ==
    [][\A s \in Sessions, o \in OrderIds :
          (CompleteOrderButton(s, o) /\ Insufficient(orders[o].ingredients)) =>
              /\ orders'[o].status = "processing"
              /\ result'[s].outcome = "error"
              /\ ShortItems(orders[o].ingredients) \subseteq Named(result'[s].detail)]_vars

\* C8: a write to an item does not undo what another writer has committed
\* since the item was read: the scanner update, which edits the quantity of
\* the item it scanned, leaves the other stored fields as the finished
\* operations of the other sessions have left them.
C8_NoStaleOverwrite ==
    [][\A s \in Sessions :
          (/\ pc[s] = "set" /\ pc'[s] = "add"
           /\ form[s].name = "update_item_form"
           /\ \A o \in Sessions \ {s} : pc[o] = "idle") =>
              \A f \in DOMAIN inventory[form[s].custom_id] \ {"quantity", "id"} :
                  inventory'[form[s].custom_id][f] = inventory[form[s].custom_id][f]]_vars

\* C9: after all attempts of a wrapped call have raised, the wrapper raises
\* to its caller the exception of the last attempt, not another error.
C9_LastExceptionSurfaced ==
    \A s \in Sessions :
        frame[s].status = "raised" => frame[s].raised = frame[s].exc

\* the invocations of a wrapped call are at most 3, every one but the last has
\* failed when the wrapper returns, and the value it returns is the one the
\* returning attempt read
C10_Counts(s) ==
    /\ frame[s].calls <= 3
    /\ frame[s].status = "returned" => frame[s].calls = frame[s].attempt + 1
    /\ pc[s] = "branch" =>
          /\ frame[s].status = "returned"
          /\ frame[s].value = get_inventory_item_details(form[s].custom_id)

\* a wrapper that has returned is not continued: its frame stays as it is
\* until a handler makes a new call
C10_NoCallAfterReturn(s) ==
    frame[s].status = "returned" =>
        \/ frame'[s] = frame[s]
        \/ frame'[s].attempt = 0

\* C10: the wrapper invokes the operation at most max_attempts = 3 times,
\* makes no invocation after the first attempt that returns normally, returns
\* that attempt's value unchanged, and always terminates, by return or raise.
C10_BoundedRetry ==
    /\ [](\A s \in Sessions : C10_Counts(s))
    /\ [][\A s \in Sessions : C10_NoCallAfterReturn(s)]_vars
    /\ \A s \in Sessions :
          (frame[s].status = "running") ~> (frame[s].status # "running")

\* a call that failed twice and returned on its third attempt
C10_Witness ==
    /\ frame["s1"].status = "returned"
    /\ frame["s1"].calls = 3
    /\ frame["s1"].func = "get_inventory_item_details"
    /\ Truthy(frame["s1"].value)

\* a wrapped call has returned from its third attempt, after two failed ones
ThirdAttemptReturned(s) == frame[s].status = "returned" /\ frame[s].calls = 3

\* C11 as stated: a call that fails twice and then succeeds returns, with
\* exactly 3 attempts made and 3 attempts logged, after sleeps of 1 and 2.
C11_ThreeLogged ==
    \A s \in Sessions :
        ThirdAttemptReturned(s) => (frame[s].slept = 3 /\ frame[s].warnings = 3)

\* C11: a call that fails twice and then succeeds returns, with exactly 3
\* attempts made, the 2 failed ones logged by the wrapper, after sleeps of 1
\* and 2 (3 time-units in all).
C11_ScenarioE ==
    \A s \in Sessions :
        ThirdAttemptReturned(s) =>
            /\ frame[s].attempt = 2
            /\ frame[s].warnings = 2
            /\ frame[s].slept = initial_delay * (1 + 2)
            /\ frame[s].slept = 3
            /\ frame[s].raised = "none"

\* a save has returned from its third attempt
C11_Witness ==
    /\ ThirdAttemptReturned("s1")
    /\ frame["s1"].func = "save_inventory_item"
    /\ result["s1"].outcome = "success"

\* the errors that are not transient
NonTransient == ExcKinds \ {"ServiceUnavailable"}

\* C12: an operation that fails for a reason that is not transient is not
\* invoked again and its failure reaches the caller without a backoff sleep;
\* a failed order completion is surfaced at once, outside the wrapper.
C12_RejectionsNotRetried ==
    [][\A s \in Sessions :
          /\ \A e \in NonTransient :
                Fault(s, e) =>
                    /\ frame'[s].status = "raised"
                    /\ frame'[s].calls = frame[s].calls
                    /\ frame'[s].slept = frame[s].slept
          /\ \A o \in OrderIds :
                CompleteOrderButton(s, o) =>
                    (frame'[s] = frame[s] /\ result'[s].outcome = "error")]_vars

\* session s is inside a call of save_inventory_item
InSave(s) == frame[s].func = "save_inventory_item" /\ frame[s].status = "running"

\* history h2 is history h1 with exactly one more entry at its end
OneMore(h1, h2) == Len(h2) = Len(h1) + 1 /\ SubSeq(h2, 1, Len(h1)) = h1

\* C13: a save_inventory_item that returns, after any number of attempts, has
\* appended exactly one entry to the history of its item (none in its failed
\* attempts, one in the attempt that returns); and when the history append
\* fails on the last attempt the caller gets a failure although the item
\* document has been written.
C13_OneEntryPerUpsert ==
    [][\A s \in Sessions :
          InSave(s) =>
              LET id == form[s].custom_id
              IN  /\ frame'[s].status = "returned" =>
                        /\ OneMore(history[id], history'[id])
                        /\ \A i \in ItemIds \ {id} : history'[i] = history[i]
                  /\ frame'[s].status # "returned" => history' = history
                  /\ (pc[s] = "add" /\ frame'[s].status = "raised") =>
                        /\ result'[s].outcome = "exception"
                        /\ id \in DOMAIN inventory'
                        /\ inventory'[id].quantity = form[s].data.quantity]_vars

\* a save has returned from its second attempt and the item has one entry
C13_Witness ==
    /\ frame["s1"].func = "save_inventory_item"
    /\ frame["s1"].status = "returned"
    /\ frame["s1"].calls = 2
    /\ "A" \in DOMAIN inventory
    /\ Len(history["A"]) = 1

\* history h1 is the beginning of history h2
IsPrefix(h1, h2) == Len(h1) <= Len(h2) /\ SubSeq(h2, 1, Len(h1)) = h1

\* the last mutation of the quantity of item i has its entry: the history of
\* i ends with the entry of the save that stored the current quantity
LastMutationRecorded(i) ==
    /\ history[i] # <<>>
    /\ history[i][Len(history[i])].quantity_change = inventory[i].quantity

\* C14: no step removes or modifies an entry of a history (every history only
\* grows at its end), and every mutation of an item's quantity has added an
\* entry once the operation that made it is over.
C14_AppendOnlyLedger ==
    /\ [][\A i \in ItemIds : IsPrefix(history[i], history'[i])]_vars
    /\ [](\A i \in DOMAIN inventory : ~Saving(i) => LastMutationRecorded(i))

\* C15: the document write of save_inventory_item(data, id) leaves every
\* stored field that is not a key of data at its previous value, gives every
\* key of data the supplied value, clears no field and touches no other item.
C15_MergeSemantics ==
    [][\A s \in Sessions :
          (pc[s] = "set" /\ pc'[s] = "add") =>
              LET id == form[s].custom_id
                  data == form[s].data
                  old == Doc(id)
              IN  /\ id \in DOMAIN inventory'
                  /\ DOMAIN inventory'[id] = (DOMAIN old) \cup (DOMAIN data)
                  /\ \A f \in (DOMAIN old) \ (DOMAIN data) : inventory'[id][f] = old[f]
                  /\ \A f \in DOMAIN data : inventory'[id][f] = data[f]
                  /\ \A i \in (DOMAIN inventory) \ {id} : inventory'[i] = inventory[i]]_vars

\* item A was created with its alert threshold by the add form, then saved
\* again by create_from_usb_scan_form, whose data has no threshold: the
\* stored threshold is still there
C15_Witness ==
    /\ "A" \in DOMAIN inventory
    /\ Len(history["A"]) = 2
    /\ history["A"][1].type = "Stock Inicial"
    /\ history["A"][2].type = "Stock Inicial"
    /\ \E s \in Sessions :
          /\ result[s].handler = "create_from_usb_scan_form"
          /\ result[s].outcome = "success"
    /\ "min_stock_alert" \in DOMAIN inventory["A"]
    /\ inventory["A"].min_stock_alert = 1

\* item i is at or below an alert threshold that is set
AtOrBelowThreshold(i) ==
    /\ "min_stock_alert" \in DOMAIN inventory[i]
    /\ inventory[i].quantity <= inventory[i].min_stock_alert

\* C16: the Inicio page warns about an item if and only if its
\* min_stock_alert is set and its quantity is <= min_stock_alert; an item with
\* min_stock_alert = 0 and quantity = 0 is warned about.
C16_LowStockDetection ==
    [][\A s \in Sessions :
          (InicioRerun(s) /\ result'[s].outcome = "loaded") =>
              \A i \in DOMAIN inventory :
                  (i \in {result'[s].alerts[k] : k \in DOMAIN result'[s].alerts})
                      <=> AtOrBelowThreshold(i)]_vars

\* C17: send_whatsapp_alert never raises to its caller, whether the client is
\* absent or the send fails, and it changes no inventory item, no history
\* entry and no order: what was committed before it stays committed.
C17_AlertsNeverAffectStock ==
    [][\A s \in Sessions, send \in SendOutcomes :
          SendWhatsappAlert(s, send) =>
              /\ result'[s].outcome # "exception"
              /\ inventory' = inventory
              /\ history' = history
              /\ orders' = orders]_vars

\* a send has failed with a client configured, after a save of item A was
\* committed
C17_Witness ==
    /\ services.twilio_client = "Client"
    /\ result["s1"].handler = "send_whatsapp_alert"
    /\ result["s1"].detail = <<"Error al enviar alerta de Twilio">>
    /\ "A" \in DOMAIN inventory
    /\ Len(history["A"]) = 1

\* C20: with the store credentials missing or invalid, the construction of
\* FirebaseManager raises, no store client is handed out, the initialized flag
\* stays false and the script is stopped before any page operation.
C20_MisconfigurationFatal ==
    services.secrets.firebase # "valid" =>
        /\ services.db = "none"
        /\ services.firebase = "none"
        /\ ~services._app_initialized
        /\ services.run \in {"not_started", "stopped"}
        /\ services.run = "stopped" => services.error # "none"
        /\ inventory = None
        /\ \A s \in Sessions :
              /\ pc[s] = "idle"
              /\ page[s] = "Inicio"
              /\ result[s] = NoResult
              /\ frame[s] = NoFrame

\* the script was stopped for a missing secret
C20_Witness ==
    /\ services.secrets.firebase = "missing"
    /\ services.run = "stopped"
    /\ services.error = "ValueError"

\* the items of a list of lines
ItemsOf(lines) == {lines[k].id : k \in 1..Len(lines)}

\* another session is inside a save of an item that is not among items
DisjointSaveInFlight(s, items) ==
    \E u \in Sessions \ {s} : pc[u] \in {"set", "add"} /\ form[u].custom_id \notin items

\* C18: two concurrent stock-changing operations on disjoint sets of items
\* both commit and the final quantity of every item reflects the operation
\* that touched it: a completion whose lines are in stock, run while another
\* session saves an item outside its lines, commits its decrements; the save
\* of an item, run next to operations on other items, commits its quantity
\* and leaves the other items alone.
C18_DisjointBothCommit ==
    [][\A s \in Sessions :
          /\ \A o \in OrderIds :
                (/\ CompleteOrderButton(s, o)
                 /\ orders[o].status = "processing"
                 /\ ~Insufficient(orders[o].ingredients)
                 /\ DisjointSaveInFlight(s, ItemsOf(orders[o].ingredients))) =>
                    /\ result'[s].outcome = "success"
                    /\ \A k \in 1..Len(orders[o].ingredients) :
                          LET l == orders[o].ingredients[k]
                          IN  Stock(l.id)' = Stock(l.id) - l.quantity
          /\ (pc[s] = "add" /\ pc'[s] = "idle") =>
                /\ result'[s].outcome = "success"
                /\ inventory'[form[s].custom_id].quantity = form[s].data.quantity
          /\ (pc[s] = "set" /\ pc'[s] = "add") =>
                \A i \in (DOMAIN inventory) \ {form[s].custom_id} :
                    inventory'[i] = inventory[i]]_vars

\* C19: creating an order yields a new order with status processing that
\* holds the line items and the total price, and changes no quantity and no
\* history.
C19_OrderCreation ==
    [][\A s \in Sessions, lines \in SaleLists, price \in OrderPrices :
          CreateOrder(s, lines, price) =>
              /\ result'[s].outcome = "success"
              /\ \E o \in (DOMAIN orders') \ (DOMAIN orders) :
                    /\ orders'[o].status = "processing"
                    /\ orders'[o].ingredients = lines
                    /\ orders'[o].price = price
              /\ \A o \in DOMAIN orders : orders'[o] = orders[o]
              /\ inventory' = inventory
              /\ history' = history]_vars

\* C21: however many managers the threads construct, one after another or
\* interleaved, at most one Firebase app is ever registered, and every
\* construction that returned left a store client of that app in db
C21_InitializeOnce ==
    /\ services._apps <= 1
    /\ services._app_initialized => services._apps = 1
    /\ \A s \in Sessions :
           manager[s].at = "returned" =>
               /\ manager[s].db = "client"
               /\ manager[s].raised = "none"
               /\ services._apps = 1

\* both threads have constructed a manager more than once
C21_Witness ==
    /\ \A s \in Sessions :
           /\ manager[s].at = "returned"
           /\ manager[s].built >= 2
           /\ manager[s].db = "client"
    /\ services._apps = 1

\* the keys of the object a report call returned to session s
ReportOf(s) == {result[s].detail[k] : k \in DOMAIN result[s].detail}

\* C22: for every list of completed orders, empty or not, and every answer
\* or failure of the model, generate_daily_report returns a JSON object string
\* (it never raises), and the object holds the four report keys or an error key
C22_ReportAlwaysReturned ==
    \A s \in Sessions :
        result[s].handler = "generate_daily_report" =>
            /\ result[s].outcome = "returned"
            /\ ReportKeys \subseteq ReportOf(s) \/ "error" \in ReportOf(s)

\* the name of a listed item, folded to upper case (a..z move to A..Z)
FoldedName(x) ==
    LET cps == IF "name" \in DOMAIN x THEN CodePoints[x.name] ELSE <<>>
    IN  [k \in DOMAIN cps |-> IF cps[k] \in 97..122 THEN cps[k] - 32 ELSE cps[k]]

\* C23: the listing holds every stored item exactly once, with its fields and
\* its id, ordered by name without regard to case (an item without a name
\* counts as the empty name), and listing changes nothing in the store
C23_ListingSortedComplete ==
    [][\A s \in Sessions :
          ListItems(s) =>
              LET L == result'[s].detail
              IN  /\ Len(L) = Cardinality(DOMAIN inventory)
                  /\ \A i \in DOMAIN inventory :
                         \E k \in DOMAIN L :
                             /\ L[k].id = i
                             /\ \A f \in DOMAIN inventory[i] : L[k][f] = inventory[i][f]
                  /\ \A j, k \in DOMAIN L :
                         j < k => ~StrLess(FoldedName(L[k]), FoldedName(L[j]))
                  /\ UNCHANGED store]_vars

\* a listing of two items whose names differ in case, in the order that a
\* comparison of the raw names would reverse
C23_Witness ==
    \E s \in Sessions :
        /\ result[s].handler = "get_all_inventory_items"
        /\ Len(result[s].detail) = 2
        /\ Get(result[s].detail[1], "name", "") = "a"
        /\ Get(result[s].detail[2], "name", "") = "B"
        /\ result[s].detail[1].id = "B"

\* C24: "Completar Pedido" never ends in an exception of complete_order: the
\* call returns a triple (success, message, alerts) for every listed order,
\* and a triple whose success is false carries no alerts, so the page shows
\* the error and sends no stock alert
C24_CompleteOrderNeverRaises ==
    [][\A s \in Sessions, o \in OrderIds :
          CompleteOrderButton(s, o) =>
              LET r == complete_order(o)
              IN  /\ r.raised = "none"
                  /\ r.success \in BOOLEAN
                  /\ ~r.success => r.alerts = <<>>
                  /\ result'[s].handler = "comp"
                  /\ result'[s].outcome \in {"success", "error"}
                  /\ result'[s].outcome = "error" => result'[s].alerts = <<>>]_vars

\* a completion failed inside the transaction and the page shows its message
C24_Witness ==
    \E s \in Sessions :
        /\ result[s].handler = "comp"
        /\ result[s].outcome = "error"
        /\ result[s].detail = <<"Error en la transaccion", "NameError">>
        /\ result[s].alerts = <<>>

\* the initial-stock entries of the ledger of item i
InitialStockEntries(i) ==
    {k \in DOMAIN history[i] : history[i][k].type = "Stock Inicial"}

\* C25: the add form rejects an id that its check found in the store and
\* then leaves the item and its history as they were; and in every
\* behaviour, two sessions submitting the same new id at the same time
\* included, no ledger holds more than one initial-stock entry
C25_SingleInitialStock ==
    /\ [][\A s \in Sessions :
             (Branch(s) /\ form[s].name = "add_item_form_new"
                        /\ Truthy(frame[s].value)) =>
                 /\ result'[s].outcome = "error"
                 /\ pc'[s] = "idle"
                 /\ UNCHANGED store]_vars
    /\ [](\A i \in ItemIds : Cardinality(InitialStockEntries(i)) <= 1)

\* C26: the sleep that follows the k-th failed attempt of a wrapped call lasts
\* initial_delay * 2^(k-1); a call whose 3 attempts all failed has slept
\* after each of them, the last one included (1, 2 and 4, 7 time-units in
\* all), when its failure reaches the handler
C26_BackoffSchedule ==
    /\ [][\A s \in Sessions, e \in ExcKinds :
             Fault(s, e) =>
                 frame'[s].slept - frame[s].slept =
                     initial_delay * 2 ^ (frame'[s].attempt - 1)]_vars
    /\ [](\A s \in Sessions :
             frame[s].status = "raised" =>
                 /\ frame[s].attempt = 3
                 /\ frame[s].warnings = 3
                 /\ frame[s].slept = 1 + 2 + 4
                 /\ frame[s].slept = 7)

\* the three attempts of a save failed and the handler got the failure
C26_Witness ==
    /\ frame["s1"].status = "raised"
    /\ frame["s1"].func = "save_inventory_item"
    /\ frame["s1"].calls = 3
    /\ frame["s1"].slept = 7
    /\ result["s1"].outcome = "exception"

====
